---- MODULE Spec2Model ----
(***************************************************************************)
(* Job queue / workflow engine of automatic1111-async-api-proxy:           *)
(* the job store (libs/db), the workflow registry, the processor factory,  *)
(* the processors and the polling worker (processNextJob / mainLoop).      *)
(*                                                                         *)
(* Every worker and the API server are separate OS processes over one      *)
(* SQLite file, so the atomic steps of the model are the single SQL        *)
(* statements the code runs (better-sqlite3 runs each prepared statement   *)
(* in its own implicit transaction); code between two statements is local  *)
(* to one process and is folded into the statement that follows it.        *)
(*                                                                         *)
(* Time is counted in minutes.  TEXT timestamps keep their format, because *)
(* the store compares them as strings: new Date().toISOString() writes     *)
(* 'YYYY-MM-DDTHH:MM:SS.sssZ' and SQLite's datetime() writes               *)
(* 'YYYY-MM-DD HH:MM:SS'.                                                  *)
(*                                                                         *)
(* Reading of statements.updateStatus: the statement text lacks the comma  *)
(* between its second and third SET clause and holds one more '?' than     *)
(* updateStatus() passes.  The model takes the three SET clauses as        *)
(* written, with every '?' of a CASE bound to the status argument.         *)
(***************************************************************************)
EXTENDS Integers, Sequences, FiniteSets, TLC

\* ------------------------------------------------------------- bounds
MaxJobs == 1
MaxTicks == 1
MaxDeliveries == 1
\* rows of the jobs table and retries per row when the table is drawn (SpecLease)
MaxRows == 2
MaxRetry == 3
\* migration files in the directory and runs of runMigrations (SpecMigrate)
MaxFiles == 3
MaxRuns == 3
\* jobs in the legacy store (SpecLegacy)
MaxLegacyJobs == 3

\* ------------------------------------------------------------- values
NULL == <<>>
UNDEFINED == <<"undefined">>
\* an optional string property that is not set
Absent == ""

Uuids == 1..MaxJobs
WorkerIds == {"w1", "w2"}

MinutesPerDay == 24 * 60
\* the clock starts one minute before midnight
StartMinute == MinutesPerDay - 1
Horizon == StartMinute + MaxTicks

\* an ISO stamp 'YYYY-MM-DDTHH:MM:SS.sssZ': minute t, ms the milliseconds part
IsoMs(t, ms) == <<"T", t, ms>>
\* new Date().toISOString() at minute t
Iso(t) == IsoMs(t, 0)
\* SQLite datetime(...) at minute t: 'YYYY-MM-DD HH:MM:SS', no fraction
Sql(t) == <<" ", t>>
\* datetime(ts): the stamp in SQLite's format, its fraction dropped
Datetime(ts) == Sql(ts[2])

DayOf(ts) == ts[2] \div MinutesPerDay
MinuteOf(ts) == ts[2] % MinutesPerDay
\* the character that follows the date in the TEXT value: ' ' sorts before 'T'
SepRank(ts) == IF ts[1] = " " THEN 0 ELSE 1
\* the fraction of a second the TEXT value ends with, if it has one
FracOf(ts) == IF ts[1] = "T" THEN ts[3] ELSE 0

\* a <= b for two TEXT timestamps (SQLite BINARY collation)
TextLE(a, b) ==
  \/ DayOf(a) < DayOf(b)
  \/ /\ DayOf(a) = DayOf(b)
     /\ \/ SepRank(a) < SepRank(b)
        \/ /\ SepRank(a) = SepRank(b)
           /\ \/ MinuteOf(a) < MinuteOf(b)
              \/ MinuteOf(a) = MinuteOf(b) /\ FracOf(a) <= FracOf(b)

\* JSON helpers (libs/json)
serialize(val) == <<"json", val>>
deserialize(text) == IF text = NULL THEN UNDEFINED ELSE text[2]

\* payload objects a processor can return
EmptyObject == <<"{}">>
GenerationPayload == <<"images,seed,info">>
AssetRecord == <<"filepath">>

\* job.result || {}
OrEmpty(v) == IF v = UNDEFINED \/ v = NULL THEN EmptyObject ELSE v

\* ------------------------------------------------------------- registry
TerminalStatuses == {"completed", "canceled", "error"}

imageGeneration ==
  [s \in {"pending", "ready-for-uploading", "ready-for-webhook"} |->
     CASE s = "pending" ->
            [process |-> "generating", success |-> "ready-for-uploading",
             failure |-> Absent, incrementFailureCounter |-> Absent]
       [] s = "ready-for-uploading" ->
            [process |-> "uploading", success |-> "ready-for-webhook",
             failure |-> Absent, incrementFailureCounter |-> Absent]
       [] OTHER ->
            [process |-> "webhook", success |-> "completed",
             failure |-> Absent, incrementFailureCounter |-> Absent]]

noopWorkflow ==
  [s \in {"pending"} |->
     [process |-> "noop", success |-> "completed",
      failure |-> "completed", incrementFailureCounter |-> Absent]]

civitaiDownloadWorkflow ==
  [s \in {"pending"} |->
     [process |-> "civitai-download", success |-> "completed",
      failure |-> Absent, incrementFailureCounter |-> Absent]]

WorkflowKeys == {"txt2img", "img2img", "civitai-download", "asset-download", "florence"}

WorkflowsDangling ==
  [k \in WorkflowKeys |->
     CASE k \in {"txt2img", "img2img"} -> imageGeneration
       [] k = "civitai-download" ->
            [civitaiDownloadWorkflow EXCEPT !["pending"].success = "ready"]
       [] OTHER -> noopWorkflow]

Workflows ==
  [k \in WorkflowKeys |->
     CASE k \in {"txt2img", "img2img"} -> imageGeneration
       [] k = "civitai-download" -> civitaiDownloadWorkflow
       [] OTHER -> noopWorkflow]

\* workflow && workflowStep
HasStep(workflowKey, status) ==
  workflowKey \in WorkflowKeys /\ status \in DOMAIN Workflows[workflowKey]

\* Workflows[job.workflow][job.status]
WorkflowStepOf(workflowKey, status) == Workflows[workflowKey][status]

ProcessNames ==
  {"noop", "generating", "uploading", "webhook", "civitai-download", "donbooru-autotag"}

\* the switch of an earlier build of the factory
EarlierProcessNames == {"generating", "uploading", "webhook"}

\* ------------------------------------------------------------- job store
\* the status values the workflow engine reads and writes, with two border cases
\* of the 'ready-for-' prefix
Statuses ==
  {"pending", "ready-for-uploading", "ready-for-webhook", "ready-for-", "ready",
   "generating", "uploading", "webhook", "noop", "civitai-download", "donbooru-autotag",
   "completed", "canceled", "error"}

\* the characters of a status value
Chars ==
  [s \in Statuses |->
     CASE
       s = "pending" ->
         <<"p", "e", "n", "d", "i", "n", "g">>
    [] s = "ready-for-uploading" ->
         <<"r", "e", "a", "d", "y", "-", "f", "o", "r", "-", "u", "p", "l", "o", "a", "d", "i", "n", "g">>
    [] s = "ready-for-webhook" ->
         <<"r", "e", "a", "d", "y", "-", "f", "o", "r", "-", "w", "e", "b", "h", "o", "o", "k">>
    [] s = "ready-for-" ->
         <<"r", "e", "a", "d", "y", "-", "f", "o", "r", "-">>
    [] s = "ready" ->
         <<"r", "e", "a", "d", "y">>
    [] s = "generating" ->
         <<"g", "e", "n", "e", "r", "a", "t", "i", "n", "g">>
    [] s = "uploading" ->
         <<"u", "p", "l", "o", "a", "d", "i", "n", "g">>
    [] s = "webhook" ->
         <<"w", "e", "b", "h", "o", "o", "k">>
    [] s = "noop" ->
         <<"n", "o", "o", "p">>
    [] s = "civitai-download" ->
         <<"c", "i", "v", "i", "t", "a", "i", "-", "d", "o", "w", "n", "l", "o", "a", "d">>
    [] s = "donbooru-autotag" ->
         <<"d", "o", "n", "b", "o", "o", "r", "u", "-", "a", "u", "t", "o", "t", "a", "g">>
    [] s = "completed" ->
         <<"c", "o", "m", "p", "l", "e", "t", "e", "d">>
    [] s = "canceled" ->
         <<"c", "a", "n", "c", "e", "l", "e", "d">>
    [] s = "error" ->
         <<"e", "r", "r", "o", "r">>]

\* SQLite LIKE compares ASCII letters without regard to case
Fold(c) ==
  CASE c = "R" -> "r" [] c = "E" -> "e" [] c = "A" -> "a" [] c = "D" -> "d"
    [] c = "Y" -> "y" [] c = "F" -> "f" [] c = "O" -> "o" [] OTHER -> c

ReadyForPrefix == <<"r", "e", "a", "d", "y", "-", "f", "o", "r", "-">>

\* status LIKE 'ready-for-%'
LikeReadyFor(status) ==
  /\ Len(Chars[status]) >= Len(ReadyForPrefix)
  /\ \A i \in 1..Len(ReadyForPrefix) : Fold(Chars[status][i]) = ReadyForPrefix[i]

\* generated column ready
ReadyNotTerminal(status) == status \notin TerminalStatuses
ReadyUnlessFinished(status) == status \notin {"completed", "error"}
ReadyPendingOnly(status) == status = "pending"
Ready(status) == status = "pending" \/ LikeReadyFor(status)

\* 1 << retry_count
RECURSIVE ShiftLeft(_)
ShiftLeft(n) == IF n = 0 THEN 1 ELSE 2 * ShiftLeft(n - 1)

\* generated column ready_at
ReadyAtIgnoresRetry(row) == row.created_at
ReadyAt(row) ==
  IF row.retry_count = 0 THEN row.created_at
  ELSE IF row.last_retry = NULL THEN NULL
  ELSE Sql(row.last_retry[2] + ShiftLeft(row.retry_count))

\* WHERE (ready = 1) AND ready_at <= ?
Eligible(row, t) ==
  /\ Ready(row.status)
  /\ ReadyAt(row) # NULL
  /\ TextLE(ReadyAt(row), Iso(t))

\* jobs.create(job): the inserted row
NewRowKeepsStatus(workflow, status, webhookUrl, t) ==
  [workflow |-> workflow, status |-> status,
   progress |-> 0, result |-> NULL, error |-> NULL, webhookUrl |-> webhookUrl,
   retry_count |-> 0, last_retry |-> NULL, created_at |-> Iso(t), completed_at |-> NULL]
NewRow(workflow, status, webhookUrl, t) ==
  [workflow |-> workflow, status |-> IF status = Absent THEN "pending" ELSE status,
   progress |-> 0, result |-> NULL, error |-> NULL, webhookUrl |-> webhookUrl,
   retry_count |-> 0, last_retry |-> NULL, created_at |-> Iso(t), completed_at |-> NULL]

\* statements.updateStatus
UpdateStatusRowResetsProgress(row, status, t) ==
  [row EXCEPT
     !.status = status,
     !.completed_at = IF status \in {"completed", "canceled", "error"} THEN Sql(t) ELSE @,
     !.progress = IF status \in {"progress", "canceled", "error"} THEN 10 ELSE 0]
UpdateStatusRow(row, status, t) ==
  [row EXCEPT
     !.status = status,
     !.completed_at = IF status \in {"completed", "canceled", "error"} THEN Sql(t) ELSE @,
     !.progress = IF status \in {"progress", "canceled", "error"} THEN 10 ELSE @]

\* statements.updateProgress
UpdateProgressRow(row, progress) == [row EXCEPT !.progress = progress]

\* statements.updateRetry
UpdateRetryRowSetsStatus(row, t) ==
  [row EXCEPT !.retry_count = @ + 1, !.last_retry = Iso(t), !.status = "pending"]
UpdateRetryRow(row, t) ==
  [row EXCEPT !.retry_count = @ + 1, !.last_retry = Iso(t)]

AllowedFields ==
  {"status", "progress", "request", "result", "error", "webhookUrl", "webhookKey",
   "workflow", "retry_count", "last_retry", "completed_at"}

\* jobs.update: the keys of data that reach the SET list
UpdateFields(data) ==
  LET fields == DOMAIN data \cap AllowedFields
  IN IF "status" \in DOMAIN data /\ data.status \in TerminalStatuses
       THEN fields \cup {"completed_at", "progress"}
       ELSE fields

\* jobs.update: the value bound to @k
UpdatePayload(data, k, t) ==
  LET terminal == "status" \in DOMAIN data /\ data.status \in TerminalStatuses
  IN CASE terminal /\ k = "completed_at" -> Iso(t)
       [] terminal /\ k = "progress" -> 10
       [] k = "result" /\ data[k] # NULL /\ data[k] # UNDEFINED -> serialize(data[k])
       [] OTHER -> data[k]

\* stmt.run throws when a bound value is undefined
UpdateThrows(data) ==
  \E k \in UpdateFields(data) \cap DOMAIN data \cap {"result", "error", "last_retry"} :
     data[k] = UNDEFINED

\* jobs.update: the row after the UPDATE
UpdateRow(row, data, t) ==
  [k \in DOMAIN row |->
     IF k \in UpdateFields(data) THEN UpdatePayload(data, k, t) ELSE row[k]]

\* ------------------------------------------------------------- state
VARIABLES
  jobs,        \* the jobs table: uuid -> row, uuids handed out in order
  now,         \* the clock, in minutes
  workers,     \* the worker processes that were started
  pc,          \* where each worker is in mainLoop / processNextJob
  job,         \* the job object getNextReady returned to each worker
  ret,         \* what processor.run returned or threw
  caught,      \* the exception mainLoop caught last
  hook,        \* per job, the responses the webhook receiver has given
  cancelling,  \* the uuid jobs.cancel has selected and not yet updated, or 0
  ledger,      \* the _migrations table: file name -> row
  schema,      \* the migration files whose statements the database holds
  bad,         \* the migration files whose SQL throws when executed
  mig,         \* runMigrations: where it is, and its locals
  factory,     \* the process names the switch of createProcessor has a case for
  op,          \* the store primitive called last, with its arguments
  poller,      \* per worker, the progress poller ImageGenerationProcessor.run started
  legacy       \* the legacy store: its jobs table, its write lock and its callers

jobVars == <<jobs, now, workers, pc, job, ret, caught, hook, cancelling>>
migVars == <<ledger, schema, bad, mig>>
extVars == <<factory, op, poller, legacy>>
vars ==
  <<jobs, now, workers, pc, job, ret, caught, hook, cancelling, ledger, schema, bad, mig,
    factory, op, poller, legacy>>

\* ProcessorFactory.createProcessor: TRUE when the switch has a case for the name
createProcessor(activeState) == activeState \in factory

NoJob ==
  [uuid |-> 0, workflow |-> Absent, status |-> Absent, result |-> UNDEFINED,
   webhookUrl |-> FALSE, retry_count |-> 0]

NoRet == [kind |-> "none", payload |-> UNDEFINED, isUnrecoverable |-> FALSE, message |-> NULL]

Ok(payload) ==
  [kind |-> "ok", payload |-> payload, isUnrecoverable |-> FALSE, message |-> NULL]

\* throw new Error(message)
Error(message) ==
  [kind |-> "err", payload |-> UNDEFINED, isUnrecoverable |-> FALSE, message |-> <<message>>]

\* throw new UnrecoverableError(message)
UnrecoverableError(message) ==
  [kind |-> "err", payload |-> UNDEFINED, isUnrecoverable |-> TRUE, message |-> <<message>>]

BindErrorMessage == "SQLite3 can only bind numbers, strings, bigints, buffers, and null"

\* the job object built from a row (getNextReady)
JobOf(u, row) ==
  [uuid |-> u, workflow |-> row.workflow, status |-> row.status,
   result |-> deserialize(row.result), webhookUrl |-> row.webhookUrl,
   retry_count |-> row.retry_count]

\* what the submission routes and direct callers of jobs.create pass: <<workflow, status>>
CreateInputs ==
  {<<"txt2img", "pending">>, <<"civitai-download", "pending">>, <<"florence", "pending">>,
   <<"upscale", Absent>>, <<"florence", "ready-for-uploading">>}

Responses == {200, 500, 0}
Is2xx(r) == r >= 200 /\ r < 300

\* ------------------------------------------------------------- migrations
\* a directory entry: <<zero-padded number the name starts with, extension>>
DirEntries == {<<n, "sql">> : n \in 1..MaxFiles} \cup {<<1, "md">>}

\* file.endsWith('.sql')
EndsWithSql(file) == file[2] = "sql"

\* files.sort(): ascending by name
RECURSIVE SortFiles(_)
SortFiles(files) ==
  IF files = {} THEN <<>>
  ELSE LET first == CHOOSE f \in files : \A g \in files : f[1] <= g[1]
       IN <<first>> \o SortFiles(files \ {first})

\* no row of _migrations has this name
NoRow == <<>>

\* a row of _migrations: <<applied_at, success, error>>
LedgerRow(applied_at, success, error) == <<applied_at, success, error>>

\* SELECT name FROM _migrations WHERE success = 1
AppliedMigrations == {f \in DirEntries : ledger[f] # NoRow /\ ledger[f][2] = 1}

NoRun ==
  [pc |-> "idle", applied |-> {}, files |-> <<>>, i |-> 0, attempted |-> <<>>,
   saved |-> {}, runs |-> 0]

\* the state before the server has started
MigInit ==
  /\ ledger = [f \in DirEntries |-> NoRow]
  /\ schema = {}
  /\ bad = {}
  /\ mig = NoRun

\* the current build, no store primitive called yet, no poller, an empty legacy store
NoOp == [name |-> "none", uuid |-> 0, arg |-> <<>>]
NoPoller == [state |-> "off", uuid |-> 0, running |-> FALSE]
NoLegacy == [rows |-> <<>>, lock |-> "", pc |-> [w \in WorkerIds |-> "idle"],
             row |-> [w \in WorkerIds |-> 0], leased |-> [w \in WorkerIds |-> NULL],
             given |-> <<>>, urls |-> <<>>, results |-> <<>>, sent |-> <<>>]

ExtInit ==
  /\ factory = ProcessNames
  /\ op = NoOp
  /\ poller = [w \in WorkerIds |-> NoPoller]
  /\ legacy = NoLegacy

Init ==
  /\ MigInit
  /\ ExtInit
  /\ jobs = <<>>
  /\ now = StartMinute
  /\ workers = WorkerIds
  /\ pc = [w \in WorkerIds |-> "poll"]
  /\ job = [w \in WorkerIds |-> NoJob]
  /\ ret = [w \in WorkerIds |-> NoRet]
  /\ caught = [w \in WorkerIds |-> NULL]
  /\ hook = [u \in Uuids |-> <<>>]
  /\ cancelling = 0

InitSingle ==
  /\ MigInit
  /\ ExtInit
  /\ jobs = <<>>
  /\ now = StartMinute
  /\ workers = {"w1"}
  /\ pc = [w \in WorkerIds |-> "poll"]
  /\ job = [w \in WorkerIds |-> NoJob]
  /\ ret = [w \in WorkerIds |-> NoRet]
  /\ caught = [w \in WorkerIds |-> NULL]
  /\ hook = [u \in Uuids |-> <<>>]
  /\ cancelling = 0

\* the jobs table as some earlier run left it: every row was created before the
\* clock's start, a row with retry_count > 0 had its last failure at the start
LeaseStart == StartMinute - 2

LeaseCreatedAt == {Iso(LeaseStart - 2), IsoMs(LeaseStart - 1, 0), IsoMs(LeaseStart - 1, 500)}

LeaseRows ==
  {[NewRow("txt2img", status, FALSE, 0) EXCEPT
      !.created_at = created_at,
      !.retry_count = retry_count,
      !.last_retry = IF retry_count = 0 THEN NULL ELSE Iso(LeaseStart)] :
     status \in Statuses, created_at \in LeaseCreatedAt, retry_count \in 0..MaxRetry}

InitLease ==
  /\ MigInit
  /\ ExtInit
  /\ jobs \in [1..MaxRows -> LeaseRows]
  /\ now = LeaseStart
  /\ workers = {"w1"}
  /\ pc = [w \in WorkerIds |-> "poll"]
  /\ job = [w \in WorkerIds |-> NoJob]
  /\ ret = [w \in WorkerIds |-> NoRet]
  /\ caught = [w \in WorkerIds |-> NULL]
  /\ hook = [u \in Uuids |-> <<>>]
  /\ cancelling = 0

\* ------------------------------------------------------------- submission
\* POST /v1/txt2img etc. -> jobs.create(job)
Create(in, webhookUrl) ==
  /\ Len(jobs) < MaxJobs
  /\ in[1] # Absent
  /\ webhookUrl => in[1] = "txt2img"
  /\ jobs' = Append(jobs, NewRow(in[1], in[2], webhookUrl, now))
  /\ UNCHANGED <<now, workers, pc, job, ret, caught, hook, cancelling>>
  /\ UNCHANGED migVars
  /\ UNCHANGED extVars

\* DELETE /v1/jobs/:uuid -> jobs.cancel: the SELECT
CancelSelect(u) ==
  /\ cancelling = 0
  /\ u \in DOMAIN jobs
  /\ jobs[u].status \notin {"completed", "error"}
  /\ cancelling' = u
  /\ UNCHANGED <<jobs, now, workers, pc, job, ret, caught, hook>>
  /\ UNCHANGED migVars
  /\ UNCHANGED extVars

\* jobs.cancel: this.updateStatus(uuid, 'canceled')
CancelUpdate ==
  /\ cancelling # 0
  /\ jobs' = [jobs EXCEPT ![cancelling] = UpdateStatusRow(@, "canceled", now)]
  /\ cancelling' = 0
  /\ UNCHANGED <<now, workers, pc, job, ret, caught, hook>>
  /\ UNCHANGED migVars
  /\ UNCHANGED extVars

\* a minute passes
Tick ==
  /\ now < Horizon
  /\ now' = now + 1
  /\ UNCHANGED <<jobs, workers, pc, job, ret, caught, hook, cancelling>>
  /\ UNCHANGED migVars
  /\ UNCHANGED extVars

\* ------------------------------------------------------------- worker
\* the rows statements.getNextReady can return: eligible, smallest datetime(created_at)
NextReady(t) ==
  {u \in DOMAIN jobs :
     /\ Eligible(jobs[u], t)
     /\ \A v \in DOMAIN jobs :
          Eligible(jobs[v], t) =>
            Datetime(jobs[u].created_at)[2] <= Datetime(jobs[v].created_at)[2]}

\* mainLoop: const job = db.jobs.getNextReady()
GetNextReady(w) ==
  /\ w \in workers
  /\ pc[w] = "poll"
  /\ IF NextReady(now) = {}
       THEN /\ pc' = [pc EXCEPT ![w] = "sleep"]
            /\ caught' = [caught EXCEPT ![w] = <<"No ready jobs">>]
            /\ job' = job
       ELSE /\ \E u \in NextReady(now) : job' = [job EXCEPT ![w] = JobOf(u, jobs[u])]
            /\ pc' = [pc EXCEPT ![w] = "leased"]
            /\ caught' = caught
  /\ UNCHANGED <<jobs, now, workers, ret, hook, cancelling>>
  /\ UNCHANGED migVars
  /\ UNCHANGED extVars

\* the step processNextJob resolved for the job it holds
StepOf(w) == WorkflowStepOf(job[w].workflow, job[w].status)

\* processNextJob up to db.jobs.updateStatus(job.uuid, activeState)
DispatchInvokesFirst(w) ==
  /\ w \in workers
  /\ pc[w] = "leased"
  /\ IF ~HasStep(job[w].workflow, job[w].status)
       THEN /\ pc' = [pc EXCEPT ![w] = "sleep"]
            /\ caught' = [caught EXCEPT ![w] = <<"Unknown workflow step">>]
            /\ jobs' = jobs
       ELSE IF ~createProcessor(StepOf(w).process)
       THEN /\ pc' = [pc EXCEPT ![w] = "sleep"]
            /\ caught' = [caught EXCEPT ![w] = <<"Unknown active state">>]
            /\ jobs' = jobs
       ELSE /\ jobs' = jobs
            /\ pc' = [pc EXCEPT ![w] = IF StepOf(w).process = "generating" THEN "run" ELSE "await"]
            /\ caught' = caught
  /\ UNCHANGED <<now, workers, job, ret, hook, cancelling>>
  /\ UNCHANGED migVars
  /\ UNCHANGED extVars
Dispatch(w) ==
  /\ w \in workers
  /\ pc[w] = "leased"
  /\ IF ~HasStep(job[w].workflow, job[w].status)
       THEN /\ pc' = [pc EXCEPT ![w] = "sleep"]
            /\ caught' = [caught EXCEPT ![w] = <<"Unknown workflow step">>]
            /\ jobs' = jobs
       ELSE IF ~createProcessor(StepOf(w).process)
       THEN /\ pc' = [pc EXCEPT ![w] = "sleep"]
            /\ caught' = [caught EXCEPT ![w] = <<"Unknown active state">>]
            /\ jobs' = jobs
       ELSE /\ jobs' = [jobs EXCEPT ![job[w].uuid] = UpdateStatusRow(@, StepOf(w).process, now)]
            /\ pc' = [pc EXCEPT ![w] = IF StepOf(w).process = "generating" THEN "run" ELSE "await"]
            /\ caught' = caught
  /\ UNCHANGED <<now, workers, job, ret, hook, cancelling>>
  /\ UNCHANGED migVars
  /\ UNCHANGED extVars

\* mainLoop: catch (e) { await sleep(POLL_MS) }
Sleep(w) ==
  /\ w \in workers
  /\ pc[w] = "sleep"
  /\ pc' = [pc EXCEPT ![w] = "poll"]
  /\ job' = [job EXCEPT ![w] = NoJob]
  /\ ret' = [ret EXCEPT ![w] = NoRet]
  /\ caught' = [caught EXCEPT ![w] = NULL]
  /\ UNCHANGED <<jobs, now, workers, hook, cancelling>>
  /\ UNCHANGED migVars
  /\ UNCHANGED extVars

\* mainLoop: processNextJob returned, next turn of while (true)
Loop(w) ==
  /\ w \in workers
  /\ pc[w] = "done"
  /\ pc' = [pc EXCEPT ![w] = "poll"]
  /\ job' = [job EXCEPT ![w] = NoJob]
  /\ ret' = [ret EXCEPT ![w] = NoRet]
  /\ UNCHANGED <<jobs, now, workers, caught, hook, cancelling>>
  /\ UNCHANGED migVars
  /\ UNCHANGED extVars

\* ------------------------------------------------------------- processors
Running(w, process) ==
  /\ w \in workers
  /\ pc[w] = "await"
  /\ StepOf(w).process = process

\* ImageGenerationProcessor.run: db.jobs.updateProgress(job.uuid, 0.1)
GenerateBegin(w) ==
  /\ w \in workers
  /\ pc[w] = "run"
  /\ jobs' = [jobs EXCEPT ![job[w].uuid] = UpdateProgressRow(@, 1)]
  /\ pc' = [pc EXCEPT ![w] = "await"]
  /\ UNCHANGED <<now, workers, job, ret, caught, hook, cancelling>>
  /\ UNCHANGED migVars
  /\ UNCHANGED extVars

\* ImageGenerationProcessor.run: a1111 answered, updateProgress(0.9), return payload
GenerateOk(w) ==
  /\ Running(w, "generating")
  /\ jobs' = [jobs EXCEPT ![job[w].uuid] = UpdateProgressRow(@, 9)]
  /\ ret' = [ret EXCEPT ![w] = Ok(GenerationPayload)]
  /\ pc' = [pc EXCEPT ![w] = "returned"]
  /\ UNCHANGED <<now, workers, job, caught, hook, cancelling>>
  /\ UNCHANGED migVars
  /\ UNCHANGED extVars

\* ImageGenerationProcessor.run: a1111 failed, throw e
GenerateFail(w) ==
  /\ Running(w, "generating")
  /\ ret' = [ret EXCEPT ![w] = Error("A1111 request failed")]
  /\ pc' = [pc EXCEPT ![w] = "returned"]
  /\ UNCHANGED <<jobs, now, workers, job, caught, hook, cancelling>>
  /\ UNCHANGED migVars
  /\ UNCHANGED extVars

\* UploadProcessor.run
UploadRun(w) ==
  /\ Running(w, "uploading")
  /\ ret' = [ret EXCEPT ![w] = Ok(OrEmpty(job[w].result))]
  /\ pc' = [pc EXCEPT ![w] = "returned"]
  /\ UNCHANGED <<jobs, now, workers, job, caught, hook, cancelling>>
  /\ UNCHANGED migVars
  /\ UNCHANGED extVars

\* WebhookProcessor.run: one POST when the job has a webhookUrl; its response and
\* a rejected fetch are both ignored
WebhookRun(w, response) ==
  /\ Running(w, "webhook")
  /\ Len(hook[job[w].uuid]) < MaxDeliveries
  /\ hook' = IF job[w].webhookUrl
               THEN [hook EXCEPT ![job[w].uuid] = Append(@, response)]
               ELSE hook
  /\ ret' = [ret EXCEPT ![w] = Ok(OrEmpty(job[w].result))]
  /\ pc' = [pc EXCEPT ![w] = "returned"]
  /\ UNCHANGED <<jobs, now, workers, job, caught, cancelling>>
  /\ UNCHANGED migVars
  /\ UNCHANGED extVars

\* NoopProcessor.run: return job.result
NoopRun(w) ==
  /\ Running(w, "noop")
  /\ ret' = [ret EXCEPT ![w] = Ok(job[w].result)]
  /\ pc' = [pc EXCEPT ![w] = "returned"]
  /\ UNCHANGED <<jobs, now, workers, job, caught, hook, cancelling>>
  /\ UNCHANGED migVars
  /\ UNCHANGED extVars

\* CivitAiDownloadProcessor: the download's progress callback
CivitaiProgress(w) ==
  /\ Running(w, "civitai-download")
  /\ jobs[job[w].uuid].progress # 5
  /\ jobs' = [jobs EXCEPT ![job[w].uuid] = UpdateProgressRow(@, 5)]
  /\ UNCHANGED <<now, workers, pc, job, ret, caught, hook, cancelling>>
  /\ UNCHANGED migVars
  /\ UNCHANGED extVars

\* CivitAiDownloadProcessor.run: download finished (onProgress(1)), return the record
CivitaiOk(w) ==
  /\ Running(w, "civitai-download")
  /\ jobs' = [jobs EXCEPT ![job[w].uuid] = UpdateProgressRow(@, 10)]
  /\ ret' = [ret EXCEPT ![w] = Ok(AssetRecord)]
  /\ pc' = [pc EXCEPT ![w] = "returned"]
  /\ UNCHANGED <<now, workers, job, caught, hook, cancelling>>
  /\ UNCHANGED migVars
  /\ UNCHANGED extVars

\* CivitAiDownloadProcessor.run throws: a failed fetch or download (ordinary) or
\* a request that can never succeed (UnrecoverableError)
CivitaiFail(w, unrecoverable) ==
  /\ Running(w, "civitai-download")
  /\ ret' = [ret EXCEPT ![w] =
                IF unrecoverable THEN UnrecoverableError("CivitAI version id not specified")
                ELSE Error("Download failed")]
  /\ pc' = [pc EXCEPT ![w] = "returned"]
  /\ UNCHANGED <<jobs, now, workers, job, caught, hook, cancelling>>
  /\ UNCHANGED migVars
  /\ UNCHANGED extVars

\* ------------------------------------------------------------- transitions
\* the argument of db.jobs.update on the success path
SuccessData(w) ==
  [status |-> StepOf(w).success, result |-> ret[w].payload,
   retry_count |-> 0, last_retry |-> NULL]

\* the error the catch block of processNextJob sees: what processor.run threw, or
\* what db.jobs.update threw inside the try block
CaughtError(w) ==
  IF ret[w].kind = "ok" /\ UpdateThrows(SuccessData(w)) THEN Error(BindErrorMessage)
  ELSE ret[w]

\* error.isUnrecoverable || job.retry_count >= 3
RetryCeiling == 3
IsFatalAtFive(error, retry_count) == error.isUnrecoverable \/ retry_count >= 5
IsFatalIgnoresFlag(error, retry_count) == retry_count >= RetryCeiling
IsFatalOffByOne(error, retry_count) == error.isUnrecoverable \/ retry_count > RetryCeiling
IsFatal(error, retry_count) == error.isUnrecoverable \/ retry_count >= RetryCeiling

\* workflowStep.failure || originalWaitingState
FailureStateIsMarker(w) ==
  IF StepOf(w).failure # Absent THEN StepOf(w).failure ELSE StepOf(w).process
FailureState(w) ==
  IF StepOf(w).failure # Absent THEN StepOf(w).failure ELSE job[w].status

\* workflowStep.incrementFailureCounter !== false
CountsFailure(workflowStep) == workflowStep.incrementFailureCounter # "false"

\* try { result = await processor.run(job); db.jobs.update(...success...) }
Success(w) ==
  /\ w \in workers
  /\ pc[w] = "returned"
  /\ ret[w].kind = "ok"
  /\ ~UpdateThrows(SuccessData(w))
  /\ jobs' = [jobs EXCEPT ![job[w].uuid] = UpdateRow(@, SuccessData(w), now)]
  /\ pc' = [pc EXCEPT ![w] = "done"]
  /\ UNCHANGED <<now, workers, job, ret, caught, hook, cancelling>>
  /\ UNCHANGED migVars
  /\ UNCHANGED extVars

\* catch: db.jobs.update(job.uuid, {status: 'error', error: error.message}); return
FailTerminal(w) ==
  /\ w \in workers
  /\ pc[w] = "returned"
  /\ CaughtError(w).kind = "err"
  /\ IsFatal(CaughtError(w), job[w].retry_count)
  /\ jobs' = [jobs EXCEPT ![job[w].uuid] =
                 UpdateRow(@, [status |-> "error", error |-> CaughtError(w).message], now)]
  /\ ret' = [ret EXCEPT ![w] = CaughtError(w)]
  /\ pc' = [pc EXCEPT ![w] = "done"]
  /\ UNCHANGED <<now, workers, job, caught, hook, cancelling>>
  /\ UNCHANGED migVars
  /\ UNCHANGED extVars

\* catch: db.jobs.incrementFailureCounter(job.uuid)
FailBump(w) ==
  /\ w \in workers
  /\ pc[w] = "returned"
  /\ CaughtError(w).kind = "err"
  /\ ~IsFatal(CaughtError(w), job[w].retry_count)
  /\ CountsFailure(StepOf(w))
  /\ jobs' = [jobs EXCEPT ![job[w].uuid] = UpdateRetryRow(@, now)]
  /\ ret' = [ret EXCEPT ![w] = CaughtError(w)]
  /\ pc' = [pc EXCEPT ![w] = "bumped"]
  /\ UNCHANGED <<now, workers, job, caught, hook, cancelling>>
  /\ UNCHANGED migVars
  /\ UNCHANGED extVars

\* catch: db.jobs.updateStatus(job.uuid, failureState)
FailStatus(w) ==
  /\ w \in workers
  /\ pc[w] \in {"bumped", "returned"}
  /\ pc[w] = "returned" =>
       /\ CaughtError(w).kind = "err"
       /\ ~IsFatal(CaughtError(w), job[w].retry_count)
       /\ ~CountsFailure(StepOf(w))
  /\ jobs' = [jobs EXCEPT ![job[w].uuid] = UpdateStatusRow(@, FailureState(w), now)]
  /\ ret' = [ret EXCEPT ![w] = CaughtError(w)]
  /\ pc' = [pc EXCEPT ![w] = "done"]
  /\ UNCHANGED <<now, workers, job, caught, hook, cancelling>>
  /\ UNCHANGED migVars
  /\ UNCHANGED extVars

\* ------------------------------------------------------------- runMigrations
\* server startup (or the next start after an exit): runMigrations up to the for loop
MigrateStart ==
  /\ mig.pc \in {"idle", "finished", "crashed"}
  /\ mig.runs < MaxRuns
  /\ mig' = [pc |-> "loop", applied |-> AppliedMigrations,
             files |-> SortFiles({f \in DirEntries : EndsWithSql(f)}),
             i |-> 1, attempted |-> <<>>, saved |-> {}, runs |-> mig.runs + 1]
  /\ UNCHANGED <<ledger, schema, bad>>
  /\ UNCHANGED jobVars
  /\ UNCHANGED extVars

\* for loop: if (appliedMigrations.has(filename)) continue
MigrateSkip ==
  /\ mig.pc = "loop"
  /\ mig.i <= Len(mig.files)
  /\ mig.files[mig.i] \in mig.applied
  /\ mig' = [mig EXCEPT !.i = @ + 1]
  /\ UNCHANGED <<ledger, schema, bad>>
  /\ UNCHANGED jobVars
  /\ UNCHANGED extVars

\* for loop: BEGIN, exec(sql), INSERT OR REPLACE ... success 1, COMMIT
MigrateApply ==
  /\ mig.pc = "loop"
  /\ mig.i <= Len(mig.files)
  /\ mig.files[mig.i] \notin mig.applied
  /\ mig.files[mig.i] \notin bad
  /\ schema' = schema \cup {mig.files[mig.i]}
  /\ ledger' = [ledger EXCEPT ![mig.files[mig.i]] = LedgerRow(Iso(now), 1, NULL)]
  /\ mig' = [mig EXCEPT !.i = @ + 1, !.attempted = Append(@, mig.files[mig.i])]
  /\ UNCHANGED bad
  /\ UNCHANGED jobVars
  /\ UNCHANGED extVars

\* for loop: BEGIN, exec(sql) throws with part of the file executed
MigrateThrow ==
  /\ mig.pc = "loop"
  /\ mig.i <= Len(mig.files)
  /\ mig.files[mig.i] \notin mig.applied
  /\ mig.files[mig.i] \in bad
  /\ schema' = schema \cup {mig.files[mig.i]}
  /\ mig' = [mig EXCEPT !.pc = "catch", !.saved = schema,
                        !.attempted = Append(@, mig.files[mig.i])]
  /\ UNCHANGED <<ledger, bad>>
  /\ UNCHANGED jobVars
  /\ UNCHANGED extVars

\* catch: db.exec('ROLLBACK') rolls back and returns the database object, which has
\* no catch method: the TypeError leaves runMigrations and startup() exits
MigrateCatch ==
  /\ mig.pc = "catch"
  /\ schema' = mig.saved
  /\ mig' = [mig EXCEPT !.pc = "crashed"]
  /\ UNCHANGED <<ledger, bad>>
  /\ UNCHANGED jobVars
  /\ UNCHANGED extVars

\* the for loop is over: runMigrations returns
MigrateFinish ==
  /\ mig.pc = "loop"
  /\ mig.i > Len(mig.files)
  /\ mig' = [mig EXCEPT !.pc = "finished"]
  /\ UNCHANGED <<ledger, schema, bad>>
  /\ UNCHANGED jobVars
  /\ UNCHANGED extVars

\* between two runs somebody repairs a migration file
Repair(f) ==
  /\ mig.pc \in {"finished", "crashed"}
  /\ f \in bad
  /\ bad' = bad \ {f}
  /\ UNCHANGED <<ledger, schema, mig>>
  /\ UNCHANGED jobVars
  /\ UNCHANGED extVars

\* ------------------------------------------------------------- specification
Next ==
  \/ \E in \in CreateInputs, webhookUrl \in BOOLEAN : Create(in, webhookUrl)
  \/ \E u \in Uuids : CancelSelect(u)
  \/ CancelUpdate
  \/ Tick
  \/ \E w \in WorkerIds : GetNextReady(w)
  \/ \E w \in WorkerIds : Dispatch(w)
  \/ \E w \in WorkerIds : Sleep(w)
  \/ \E w \in WorkerIds : Loop(w)
  \/ \E w \in WorkerIds : GenerateBegin(w)
  \/ \E w \in WorkerIds : GenerateOk(w)
  \/ \E w \in WorkerIds : GenerateFail(w)
  \/ \E w \in WorkerIds : UploadRun(w)
  \/ \E w \in WorkerIds, response \in Responses : WebhookRun(w, response)
  \/ \E w \in WorkerIds : NoopRun(w)
  \/ \E w \in WorkerIds : CivitaiProgress(w)
  \/ \E w \in WorkerIds : CivitaiOk(w)
  \/ \E w \in WorkerIds, unrecoverable \in BOOLEAN : CivitaiFail(w, unrecoverable)
  \/ \E w \in WorkerIds : Success(w)
  \/ \E w \in WorkerIds : FailTerminal(w)
  \/ \E w \in WorkerIds : FailBump(w)
  \/ \E w \in WorkerIds : FailStatus(w)

\* several workers on one store
Spec == Init /\ [][Next]_vars

\* one worker
SpecSingle == InitSingle /\ [][Next]_vars

\* one worker polling a table that holds rows of every kind
NextLease ==
  \/ Tick
  \/ GetNextReady("w1")
  \/ Sleep("w1")

SpecLease == InitLease /\ [][NextLease]_vars

\* server startup: the migration files, some of which throw
InitMigrate ==
  /\ ExtInit
  /\ ledger = [f \in DirEntries |-> NoRow]
  /\ schema = {}
  /\ bad \in SUBSET {f \in DirEntries : EndsWithSql(f)}
  /\ mig = NoRun
  /\ jobs = <<>>
  /\ now = StartMinute
  /\ workers = {}
  /\ pc = [w \in WorkerIds |-> "poll"]
  /\ job = [w \in WorkerIds |-> NoJob]
  /\ ret = [w \in WorkerIds |-> NoRet]
  /\ caught = [w \in WorkerIds |-> NULL]
  /\ hook = [u \in Uuids |-> <<>>]
  /\ cancelling = 0

NextMigrate ==
  \/ Tick
  \/ MigrateStart
  \/ MigrateSkip
  \/ MigrateApply
  \/ MigrateThrow
  \/ MigrateCatch
  \/ MigrateFinish
  \/ \E f \in DirEntries : Repair(f)

SpecMigrate == InitMigrate /\ [][NextMigrate]_vars

\* one worker of a build whose factory has the three cases of its earlier switch,
\* on the registry above
InitFactory ==
  /\ MigInit
  /\ factory = EarlierProcessNames
  /\ op = NoOp
  /\ poller = [w \in WorkerIds |-> NoPoller]
  /\ legacy = NoLegacy
  /\ jobs = <<>>
  /\ now = StartMinute
  /\ workers = {"w1"}
  /\ pc = [w \in WorkerIds |-> "poll"]
  /\ job = [w \in WorkerIds |-> NoJob]
  /\ ret = [w \in WorkerIds |-> NoRet]
  /\ caught = [w \in WorkerIds |-> NULL]
  /\ hook = [u \in Uuids |-> <<>>]
  /\ cancelling = 0

NextFactory ==
  \/ \E in \in CreateInputs, webhookUrl \in BOOLEAN : Create(in, webhookUrl)
  \/ \E u \in Uuids : CancelSelect(u)
  \/ CancelUpdate
  \/ Tick
  \/ GetNextReady("w1")
  \/ Dispatch("w1")
  \/ Sleep("w1")
  \/ Loop("w1")
  \/ GenerateBegin("w1")
  \/ GenerateOk("w1")
  \/ GenerateFail("w1")
  \/ UploadRun("w1")
  \/ \E response \in Responses : WebhookRun("w1", response)
  \/ Success("w1")
  \/ FailTerminal("w1")
  \/ FailBump("w1")
  \/ FailStatus("w1")

SpecFactory == InitFactory /\ [][NextFactory]_vars

\* ------------------------------------------------------------- the jobs API
\* what callers of jobs.create pass, a job without a workflow among them
StoreCreateInputs ==
  {<<"txt2img", "pending">>, <<"upscale", Absent>>, <<"florence", "ready-for-uploading">>,
   <<Absent, Absent>>}

\* the statuses the worker and jobs.cancel pass to jobs.updateStatus
StoreStatuses == {"generating", "ready-for-uploading", "canceled"}

\* the values processors pass to jobs.updateProgress
StoreProgress == {1, 9}

\* jobs.create(job): throws 'Missing workflow' before the INSERT, or inserts the row
create(in) ==
  /\ Len(jobs) < MaxRows
  /\ IF in[1] = Absent
       THEN /\ jobs' = jobs
            /\ op' = [name |-> "create", uuid |-> 0, arg |-> in]
       ELSE /\ jobs' = Append(jobs, NewRow(in[1], in[2], FALSE, now))
            /\ op' = [name |-> "create", uuid |-> Len(jobs) + 1, arg |-> in]
  /\ UNCHANGED <<now, workers, pc, job, ret, caught, hook, cancelling>>
  /\ UNCHANGED migVars
  /\ UNCHANGED <<factory, poller, legacy>>

\* jobs.updateStatus(uuid, status)
updateStatus(u, status) ==
  /\ u \in DOMAIN jobs
  /\ jobs' = [jobs EXCEPT ![u] = UpdateStatusRow(@, status, now)]
  /\ op' = [name |-> "updateStatus", uuid |-> u, arg |-> <<status>>]
  /\ UNCHANGED <<now, workers, pc, job, ret, caught, hook, cancelling>>
  /\ UNCHANGED migVars
  /\ UNCHANGED <<factory, poller, legacy>>

\* jobs.updateProgress(uuid, progress)
updateProgress(u, progress) ==
  /\ u \in DOMAIN jobs
  /\ jobs' = [jobs EXCEPT ![u] = UpdateProgressRow(@, progress)]
  /\ op' = [name |-> "updateProgress", uuid |-> u, arg |-> <<progress>>]
  /\ UNCHANGED <<now, workers, pc, job, ret, caught, hook, cancelling>>
  /\ UNCHANGED migVars
  /\ UNCHANGED <<factory, poller, legacy>>

\* jobs.incrementFailureCounter(jobUuid)
incrementFailureCounter(u) ==
  /\ u \in DOMAIN jobs
  /\ jobs[u].retry_count < MaxRetry
  /\ jobs' = [jobs EXCEPT ![u] = UpdateRetryRow(@, now)]
  /\ op' = [name |-> "incrementFailureCounter", uuid |-> u, arg |-> <<>>]
  /\ UNCHANGED <<now, workers, pc, job, ret, caught, hook, cancelling>>
  /\ UNCHANGED migVars
  /\ UNCHANGED <<factory, poller, legacy>>

\* callers of the jobs API in any order, on a table that starts empty
InitStore ==
  /\ MigInit
  /\ ExtInit
  /\ jobs = <<>>
  /\ now = StartMinute
  /\ workers = {}
  /\ pc = [w \in WorkerIds |-> "poll"]
  /\ job = [w \in WorkerIds |-> NoJob]
  /\ ret = [w \in WorkerIds |-> NoRet]
  /\ caught = [w \in WorkerIds |-> NULL]
  /\ hook = [u \in Uuids |-> <<>>]
  /\ cancelling = 0

NextStore ==
  \/ \E in \in StoreCreateInputs : create(in)
  \/ \E u \in 1..MaxRows, status \in StoreStatuses : updateStatus(u, status)
  \/ \E u \in 1..MaxRows, progress \in StoreProgress : updateProgress(u, progress)
  \/ \E u \in 1..MaxRows : incrementFailureCounter(u)

SpecStore == InitStore /\ [][NextStore]_vars

\* ------------------------------------------------------------- uploading.js
\* { images, info } picked from job.result || {}
ImagesInfo(result) == <<"images,info">>

\* { payload: { images, info } }
PayloadOf(obj) == <<"payload", obj>>

\* markWebhookPending(uuid, resultObj) of the db module uploading.js was written for
MarkWebhookPendingRow(row, resultObj) ==
  [row EXCEPT !.status = "webhook", !.progress = 9,
              !.result = serialize(resultObj), !.error = NULL]

\* completeJob(uuid, resultObj) of that module
CompleteJobRow(row, resultObj) ==
  [row EXCEPT !.status = "completed", !.progress = 10,
              !.result = serialize(resultObj), !.error = NULL]

\* UploadProcessor.run (uploading.js): db.markWebhookPending(job.uuid, {images, info})
UploadMark(w) ==
  /\ Running(w, "uploading")
  /\ jobs' = [jobs EXCEPT ![job[w].uuid] =
                 MarkWebhookPendingRow(@, ImagesInfo(OrEmpty(job[w].result)))]
  /\ pc' = [pc EXCEPT ![w] = "sending"]
  /\ UNCHANGED <<now, workers, job, ret, caught, hook, cancelling>>
  /\ UNCHANGED migVars
  /\ UNCHANGED extVars

\* UploadProcessor.run (uploading.js): sendWebhook, completeJob when it answered ok,
\* return { payload }; a rejected fetch leaves run as an exception
UploadSend(w, response) ==
  /\ w \in workers
  /\ pc[w] = "sending"
  /\ job[w].webhookUrl => Len(hook[job[w].uuid]) < MaxDeliveries
  /\ ~job[w].webhookUrl => response = 0
  /\ hook' = IF job[w].webhookUrl
               THEN [hook EXCEPT ![job[w].uuid] = Append(@, response)]
               ELSE hook
  /\ jobs' = IF job[w].webhookUrl /\ Is2xx(response)
               THEN [jobs EXCEPT ![job[w].uuid] =
                       CompleteJobRow(@, ImagesInfo(OrEmpty(job[w].result)))]
               ELSE jobs
  /\ ret' = [ret EXCEPT ![w] =
               IF job[w].webhookUrl /\ response = 0 THEN Error("fetch failed")
               ELSE Ok(PayloadOf(ImagesInfo(OrEmpty(job[w].result))))]
  /\ pc' = [pc EXCEPT ![w] = "returned"]
  /\ UNCHANGED <<now, workers, job, caught, cancelling>>
  /\ UNCHANGED migVars
  /\ UNCHANGED extVars

\* one worker of the build whose UploadProcessor is uploading.js
NextUpload ==
  \/ \E in \in CreateInputs, webhookUrl \in BOOLEAN : Create(in, webhookUrl)
  \/ \E u \in Uuids : CancelSelect(u)
  \/ CancelUpdate
  \/ Tick
  \/ GetNextReady("w1")
  \/ Dispatch("w1")
  \/ Sleep("w1")
  \/ Loop("w1")
  \/ GenerateBegin("w1")
  \/ GenerateOk("w1")
  \/ GenerateFail("w1")
  \/ UploadMark("w1")
  \/ \E response \in Responses : UploadSend("w1", response)
  \/ \E response \in Responses : WebhookRun("w1", response)
  \/ NoopRun("w1")
  \/ CivitaiProgress("w1")
  \/ CivitaiOk("w1")
  \/ \E unrecoverable \in BOOLEAN : CivitaiFail("w1", unrecoverable)
  \/ Success("w1")
  \/ FailTerminal("w1")
  \/ FailBump("w1")
  \/ FailStatus("w1")

SpecUpload == InitSingle /\ [][NextUpload]_vars

\* ------------------------------------------------------------- progress poller
\* the scaled progress values the poller writes (0.1 + raw * 0.8)
PollProgress == {5}

\* ImageGenerationProcessor.run with the poller: updateProgress(0.1), running = true,
\* the poller's first a1111.getProgress is under way, run awaits a1111.txt2img
GeneratePolledBegin(w) ==
  /\ w \in workers
  /\ pc[w] = "run"
  /\ poller[w].state = "off"
  /\ jobs' = [jobs EXCEPT ![job[w].uuid] = UpdateProgressRow(@, 1)]
  /\ poller' = [poller EXCEPT ![w] = [state |-> "asking", uuid |-> job[w].uuid, running |-> TRUE]]
  /\ pc' = [pc EXCEPT ![w] = "await"]
  /\ UNCHANGED <<now, workers, job, ret, caught, hook, cancelling>>
  /\ UNCHANGED migVars
  /\ UNCHANGED <<factory, op, legacy>>

\* poller: what follows its try block: the for loop breaks when running is off, and
\* while (running) ends
AfterPoll(w) ==
  [poller[w] EXCEPT !.state = IF poller[w].running THEN "waiting" ELSE "off"]

\* poller: getProgress answered, db.jobs.updateProgress(job.uuid, scaledClamped)
PollerWrite(w, progress) ==
  /\ w \in workers
  /\ poller[w].state = "asking"
  /\ jobs' = [jobs EXCEPT ![poller[w].uuid] = UpdateProgressRow(@, progress)]
  /\ op' = [name |-> "updateProgress", uuid |-> poller[w].uuid, arg |-> <<progress>>]
  /\ poller' = [poller EXCEPT ![w] = AfterPoll(w)]
  /\ UNCHANGED <<now, workers, pc, job, ret, caught, hook, cancelling>>
  /\ UNCHANGED migVars
  /\ UNCHANGED <<factory, legacy>>

\* poller: getProgress failed or gave no number: nothing is written
PollerSkip(w) ==
  /\ w \in workers
  /\ poller[w].state = "asking"
  /\ poller' = [poller EXCEPT ![w] = AfterPoll(w)]
  /\ UNCHANGED jobVars
  /\ UNCHANGED migVars
  /\ UNCHANGED <<factory, op, legacy>>

\* poller: the wait between polls is over; while (running) asks again or ends
PollerAsk(w) ==
  /\ w \in workers
  /\ poller[w].state = "waiting"
  /\ poller' = [poller EXCEPT ![w] =
                  [@ EXCEPT !.state = IF poller[w].running THEN "asking" ELSE "off"]]
  /\ UNCHANGED jobVars
  /\ UNCHANGED migVars
  /\ UNCHANGED <<factory, op, legacy>>

\* run: a1111 answered, updateProgress(0.9); finally: running = false
GeneratePolledOk(w) ==
  /\ Running(w, "generating")
  /\ jobs' = [jobs EXCEPT ![job[w].uuid] = UpdateProgressRow(@, 9)]
  /\ ret' = [ret EXCEPT ![w] = Ok(GenerationPayload)]
  /\ poller' = [poller EXCEPT ![w] = [@ EXCEPT !.running = FALSE]]
  /\ pc' = [pc EXCEPT ![w] = "teardown"]
  /\ UNCHANGED <<now, workers, job, caught, hook, cancelling>>
  /\ UNCHANGED migVars
  /\ UNCHANGED <<factory, op, legacy>>

\* run: a1111 failed; finally: running = false
GeneratePolledFail(w) ==
  /\ Running(w, "generating")
  /\ ret' = [ret EXCEPT ![w] = Error("A1111 request failed")]
  /\ poller' = [poller EXCEPT ![w] = [@ EXCEPT !.running = FALSE]]
  /\ pc' = [pc EXCEPT ![w] = "teardown"]
  /\ UNCHANGED <<jobs, now, workers, job, caught, hook, cancelling>>
  /\ UNCHANGED migVars
  /\ UNCHANGED <<factory, op, legacy>>

\* finally: await Promise.race([poller, sleep(50)]) is over (the poller has ended, or
\* 50 ms have passed); run returns or throws
GenerateReturn(w) ==
  /\ w \in workers
  /\ pc[w] = "teardown"
  /\ pc' = [pc EXCEPT ![w] = "returned"]
  /\ UNCHANGED <<jobs, now, workers, job, ret, caught, hook, cancelling>>
  /\ UNCHANGED migVars
  /\ UNCHANGED extVars

\* one worker of the build whose ImageGenerationProcessor polls a1111 for progress
NextPoller ==
  \/ \E in \in CreateInputs, webhookUrl \in BOOLEAN : Create(in, webhookUrl)
  \/ \E u \in Uuids : CancelSelect(u)
  \/ CancelUpdate
  \/ Tick
  \/ GetNextReady("w1")
  \/ Dispatch("w1")
  \/ Sleep("w1")
  \/ Loop("w1")
  \/ GeneratePolledBegin("w1")
  \/ \E progress \in PollProgress : PollerWrite("w1", progress)
  \/ PollerSkip("w1")
  \/ PollerAsk("w1")
  \/ GeneratePolledOk("w1")
  \/ GeneratePolledFail("w1")
  \/ GenerateReturn("w1")
  \/ UploadRun("w1")
  \/ \E response \in Responses : WebhookRun("w1", response)
  \/ NoopRun("w1")
  \/ CivitaiProgress("w1")
  \/ CivitaiOk("w1")
  \/ \E unrecoverable \in BOOLEAN : CivitaiFail("w1", unrecoverable)
  \/ Success("w1")
  \/ FailTerminal("w1")
  \/ FailBump("w1")
  \/ FailStatus("w1")

SpecPoller == InitSingle /\ [][NextPoller]_vars

\* ------------------------------------------------------------- legacy store
\* legacy.rows: rowid -> status; legacy.lock: the connection holding the write lock;
\* legacy.pc / row / leased: each worker's place in mainLoop and the locals of
\* leaseNextQueuedJob; legacy.given: rowid -> how often the job was returned;
\* legacy.urls: rowid -> the job has a webhookUrl; legacy.results: rowid -> result;
\* legacy.sent: rowid -> the webhook POSTs made for the job, <<job_status, response>>
LegacyVars == <<jobVars, migVars, factory, op, poller>>

\* the database lets this connection write
LockFreeAlways(w) == TRUE
LockFree(w) == legacy.lock = ""

\* SELECT * FROM jobs WHERE status = 'queued' ORDER BY rowid ASC LIMIT 1 (0: no row)
FirstQueuedOrWebhook(rows) ==
  IF \E u \in DOMAIN rows : rows[u] \in {"queued", "webhook"}
    THEN CHOOSE u \in DOMAIN rows :
           /\ rows[u] \in {"queued", "webhook"}
           /\ \A v \in DOMAIN rows : rows[v] \in {"queued", "webhook"} => u <= v
    ELSE 0
FirstQueued(rows) ==
  IF \E u \in DOMAIN rows : rows[u] = "queued"
    THEN CHOOSE u \in DOMAIN rows :
           /\ rows[u] = "queued"
           /\ \A v \in DOMAIN rows : rows[v] = "queued" => u <= v
    ELSE 0

\* POST /v1/txt2img -> createJob, status 'queued'
createJob(webhookUrl) ==
  /\ Len(legacy.rows) < MaxLegacyJobs
  /\ legacy.lock = ""
  /\ legacy' = [legacy EXCEPT !.rows = Append(@, "queued"), !.given = Append(@, 0),
                              !.urls = Append(@, webhookUrl), !.results = Append(@, NULL),
                              !.sent = Append(@, <<>>)]
  /\ UNCHANGED LegacyVars

\* cancelJob(uuid)
cancelJob(u) ==
  /\ u \in DOMAIN legacy.rows
  /\ legacy.lock = ""
  /\ legacy.rows[u] \in {"queued", "processing", "webhook"}
  /\ legacy' = [legacy EXCEPT !.rows[u] = "canceled"]
  /\ UNCHANGED LegacyVars

\* leaseNextQueuedJob: db.exec('BEGIN IMMEDIATE'); when another connection holds the
\* lock it throws, before the try block, and mainLoop's catch sleeps
LeaseBegin(w) ==
  /\ legacy.pc[w] = "idle"
  /\ IF LockFree(w)
       THEN legacy' = [legacy EXCEPT !.lock = w, !.pc[w] = "begun"]
       ELSE legacy' = [legacy EXCEPT !.pc[w] = "sleep"]
  /\ UNCHANGED LegacyVars

\* leaseNextQueuedJob: the SELECT
LeaseSelect(w) ==
  /\ legacy.pc[w] = "begun"
  /\ legacy' = [legacy EXCEPT !.row[w] = FirstQueued(legacy.rows), !.pc[w] = "selected"]
  /\ UNCHANGED LegacyVars

\* leaseNextQueuedJob: if (row) { UPDATE jobs SET status='processing'; leased = {...} }
LeaseUpdate(w) ==
  /\ legacy.pc[w] = "selected"
  /\ legacy.row[w] # 0
  /\ legacy' = [legacy EXCEPT !.rows[legacy.row[w]] = "processing",
                              !.leased[w] = <<legacy.row[w], "processing">>,
                              !.pc[w] = "updated"]
  /\ UNCHANGED LegacyVars

\* leaseNextQueuedJob: db.exec('COMMIT'); return leased
LeaseCommit(w) ==
  /\ \/ legacy.pc[w] = "updated"
     \/ legacy.pc[w] = "selected" /\ legacy.row[w] = 0
  /\ legacy' = [legacy EXCEPT
                  !.lock = IF @ = w THEN "" ELSE @,
                  !.pc[w] = "returned",
                  !.given = IF legacy.leased[w] = NULL THEN @
                            ELSE [@ EXCEPT ![legacy.leased[w][1]] = @ + 1]]
  /\ UNCHANGED LegacyVars

\* mainLoop: if (!job) { await sleep(POLL_MS); continue }
LeaseNone(w) ==
  /\ legacy.pc[w] = "returned"
  /\ legacy.leased[w] = NULL
  /\ legacy' = [legacy EXCEPT !.pc[w] = "sleep"]
  /\ UNCHANGED LegacyVars

\* mainLoop: await sleep(POLL_MS), next turn
LegacySleep(w) ==
  /\ legacy.pc[w] = "sleep"
  /\ legacy' = [legacy EXCEPT !.pc[w] = "idle", !.row[w] = 0]
  /\ UNCHANGED LegacyVars

\* the job a legacy worker holds
LegacyJob(w) == legacy.leased[w][1]

\* { images, info } built by processOne
ResultObj == <<"images,info">>

\* processOne: the generation call returned (ok) or threw; catch: db.failJob
ProcessGenerate(w, ok) ==
  /\ legacy.pc[w] = "returned"
  /\ legacy.leased[w] # NULL
  /\ ~ok => legacy.lock = ""
  /\ legacy' = IF ok THEN [legacy EXCEPT !.pc[w] = "generated"]
               ELSE [legacy EXCEPT !.rows[LegacyJob(w)] = "error", !.pc[w] = "failed"]
  /\ UNCHANGED LegacyVars

\* processOne: db.markWebhookPending when the job has a webhookUrl, else db.completeJob
ProcessStore(w) ==
  /\ legacy.pc[w] = "generated"
  /\ legacy.lock = ""
  /\ legacy' = IF legacy.urls[LegacyJob(w)]
                 THEN [legacy EXCEPT !.rows[LegacyJob(w)] = "webhook",
                                     !.results[LegacyJob(w)] = serialize(ResultObj),
                                     !.pc[w] = "marked"]
                 ELSE [legacy EXCEPT !.rows[LegacyJob(w)] = "completed",
                                     !.results[LegacyJob(w)] = serialize(ResultObj),
                                     !.leased[w] = NULL, !.row[w] = 0, !.pc[w] = "idle"]
  /\ UNCHANGED LegacyVars

\* sendWebhook: resp.ok; a rejected fetch (0) is caught and gives false
SendOkAlways(response) == TRUE
SendOk(response) == Is2xx(response)

\* processOne: ok = await sendWebhook(job, ...); if (ok) db.completeJob
ProcessWebhook(w, response) ==
  /\ legacy.pc[w] = "marked"
  /\ legacy.lock = ""
  /\ legacy' = [legacy EXCEPT
                  !.sent[LegacyJob(w)] = Append(@, <<"webhook", response>>),
                  !.rows[LegacyJob(w)] = IF SendOk(response) THEN "completed" ELSE @,
                  !.leased[w] = NULL, !.row[w] = 0, !.pc[w] = "idle"]
  /\ UNCHANGED LegacyVars

\* processOne, catch: await sendWebhook(job, { job_status: 'error', ... })
ProcessFailed(w, response) ==
  /\ legacy.pc[w] = "failed"
  /\ ~legacy.urls[LegacyJob(w)] => response = 0
  /\ legacy' = [legacy EXCEPT
                  !.sent[LegacyJob(w)] = IF legacy.urls[LegacyJob(w)]
                                           THEN Append(@, <<"error", response>>) ELSE @,
                  !.leased[w] = NULL, !.row[w] = 0, !.pc[w] = "idle"]
  /\ UNCHANGED LegacyVars

\* the server and two workers on the legacy store
NextLegacy ==
  \/ \E webhookUrl \in BOOLEAN : createJob(webhookUrl)
  \/ \E u \in 1..MaxLegacyJobs : cancelJob(u)
  \/ \E w \in WorkerIds : LeaseBegin(w)
  \/ \E w \in WorkerIds : LeaseSelect(w)
  \/ \E w \in WorkerIds : LeaseUpdate(w)
  \/ \E w \in WorkerIds : LeaseCommit(w)
  \/ \E w \in WorkerIds : LeaseNone(w)
  \/ \E w \in WorkerIds : LegacySleep(w)
  \/ \E w \in WorkerIds, ok \in BOOLEAN : ProcessGenerate(w, ok)
  \/ \E w \in WorkerIds : ProcessStore(w)
  \/ \E w \in WorkerIds, response \in Responses : ProcessWebhook(w, response)
  \/ \E w \in WorkerIds, response \in Responses : ProcessFailed(w, response)

SpecLegacy == InitStore /\ [][NextLegacy]_vars

\* ------------------------------------------------------------- worker stop
\* the worker process ends (killed or crashed) after processNextJob has written
\* the marker and before it applies a transition
Stop(w) ==
  /\ w \in workers
  /\ pc[w] \in {"run", "await", "returned"}
  /\ workers' = workers \ {w}
  /\ UNCHANGED <<jobs, now, pc, job, ret, caught, hook, cancelling>>
  /\ UNCHANGED migVars
  /\ UNCHANGED extVars

NextStop ==
  \/ Next
  \/ Stop("w1")

\* two workers on one store, one of which may stop while it holds a marked job
\* (the workers run the same code, so it is the first that stops)
SpecStop == Init /\ [][NextStop]_vars

\* ------------------------------------------------------------- a table of two jobs
\* processNextJob throws for job before it writes anything
Unprocessable(row) ==
  ~(HasStep(row.workflow, row.status)
      /\ createProcessor(WorkflowStepOf(row.workflow, row.status).process))

\* the jobs table after two submissions a minute apart, read by a worker that
\* starts later: the older job is one the worker's build cannot process (its
\* registry or its factory has no entry for it), the younger a txt2img job
InitQueue ==
  /\ MigInit
  /\ factory \in {ProcessNames, EarlierProcessNames}
  /\ op = NoOp
  /\ poller = [w \in WorkerIds |-> NoPoller]
  /\ legacy = NoLegacy
  /\ jobs \in {<<NewRow(in[1], in[2], FALSE, StartMinute - 2),
                 NewRow("txt2img", "pending", webhookUrl, StartMinute - 1)>> :
                  in \in CreateInputs, webhookUrl \in BOOLEAN}
  /\ Unprocessable(jobs[1])
  /\ now = StartMinute
  /\ workers = {"w1"}
  /\ pc = [w \in WorkerIds |-> "poll"]
  /\ job = [w \in WorkerIds |-> NoJob]
  /\ ret = [w \in WorkerIds |-> NoRet]
  /\ caught = [w \in WorkerIds |-> NULL]
  /\ hook = [u \in 1..MaxRows |-> <<>>]
  /\ cancelling = 0

\* one turn of the worker's mainLoop, step by step
WorkerTurn(w) ==
  \/ GetNextReady(w)
  \/ Dispatch(w)
  \/ Sleep(w)
  \/ Loop(w)
  \/ GenerateBegin(w)
  \/ GenerateOk(w)
  \/ GenerateFail(w)
  \/ UploadRun(w)
  \/ \E response \in Responses : WebhookRun(w, response)
  \/ Success(w)
  \/ FailTerminal(w)
  \/ FailBump(w)
  \/ FailStatus(w)

NextQueue ==
  \/ \E u \in 1..MaxRows : CancelSelect(u)
  \/ CancelUpdate
  \/ Tick
  \/ WorkerTurn("w1")

\* one worker that keeps running (while (true) never ends, every await settles)
\* and a clock that advances
SpecQueue ==
  InitQueue /\ [][NextQueue]_vars /\ WF_vars(WorkerTurn("w1")) /\ WF_vars(Tick)

\* ------------------------------------------------------------- properties
\* the worker has written the process-name marker and not yet applied a transition
InFlight(w) == w \in workers /\ pc[w] \in {"run", "await", "returned", "bumped"}

\* the row of the job a worker holds
Held(w) == jobs[job[w].uuid]
HeldNext(w) == jobs'[job[w].uuid]

\* C1: with several workers racing on one ready job, getNextReady hands the job to
\* one worker only: no two workers hold the same job as the result of getNextReady.
C1_ExactlyOnceLeasing ==
  \A w1 \in workers, w2 \in workers :
     (w1 # w2 /\ pc[w1] = "leased" /\ pc[w2] = "leased") => job[w1].uuid # job[w2].uuid

\* C2: for each job at most one worker is between leasing it (marker written) and
\* applying its success / failure / error transition.
C2_MutualExclusion ==
  \A w1 \in workers, w2 \in workers :
     (w1 # w2 /\ InFlight(w1) /\ InFlight(w2)) => job[w1].uuid # job[w2].uuid

\* C3: a leased job whose (workflow, status) pair has no step ends the iteration in
\* terminal status 'error'.
C3_UnknownStepEndsInError ==
  \A w \in workers :
     (pc[w] = "sleep" /\ caught[w] = <<"Unknown workflow step">>) => Held(w).status = "error"

\* C4: a job of the image workflow that has a webhookUrl is 'completed' only after
\* one of its webhook deliveries got a 2xx response.
C4_CompletedOnlyAfter2xx ==
  \A u \in DOMAIN jobs :
     (jobs[u].workflow = "txt2img" /\ jobs[u].webhookUrl /\ jobs[u].status = "completed")
       => \E i \in 1..Len(hook[u]) : Is2xx(hook[u][i])

\* C5: while the callback endpoint has answered 500 to every delivery so far (at
\* most three of them), the job is not 'completed'.
C5_StaysOpenWhile500 ==
  \A u \in DOMAIN jobs :
     (/\ jobs[u].webhookUrl
      /\ Len(hook[u]) \in 1..3
      /\ \A i \in 1..Len(hook[u]) : hook[u][i] = 500)
       => jobs[u].status \notin {"completed", "error"}

\* C6: every write that changes a job's status to completed, error or canceled
\* leaves it with progress 1 and a completed_at.
C6_TerminalWriteForcesProgress ==
  [][\A u \in DOMAIN jobs :
       (jobs'[u].status \in {"completed", "error", "canceled"}
          /\ jobs'[u].status # jobs[u].status)
         => (jobs'[u].progress = 10 /\ jobs'[u].completed_at # NULL)]_vars

\* C7: after a processor failed with an error flagged unrecoverable, the worker's
\* next step is one update that sets status 'error' and the message and leaves
\* retry_count and last_retry as they were.
C7_UnrecoverableIsTerminal ==
  [][\A w \in workers :
       (pc[w] = "returned" /\ ret[w].kind = "err" /\ ret[w].isUnrecoverable
          /\ pc'[w] # pc[w])
         => /\ pc'[w] = "done"
            /\ HeldNext(w).status = "error"
            /\ HeldNext(w).error = ret[w].message
            /\ HeldNext(w).retry_count = Held(w).retry_count
            /\ HeldNext(w).last_retry = Held(w).last_retry]_vars

\* C7: an unrecoverable failure was handled for a job that had failed before
C7_Witness ==
  \E w \in workers :
     /\ pc[w] = "done" /\ ret[w].isUnrecoverable
     /\ job[w].retry_count > 0
     /\ Held(w).status = "error"
     /\ Held(w).retry_count = job[w].retry_count

RegistryStep(w) == Workflows[job[w].workflow][job[w].status]

\* C9: an ordinary failure below the ceiling is followed by the bump (retry_count + 1,
\* last_retry stamped, status untouched) unless incrementFailureCounter is false, and
\* ends with the status at the step's failure state, or the status at lease time when
\* the step has none, never at the process-name marker.
C9_RecoverableFailure ==
  [][\A w \in workers :
       LET ordinary == /\ CaughtError(w).kind = "err"
                       /\ ~CaughtError(w).isUnrecoverable
                       /\ job[w].retry_count < 3
           counts == RegistryStep(w).incrementFailureCounter # "false"
           target == IF RegistryStep(w).failure = Absent THEN job[w].status
                     ELSE RegistryStep(w).failure
       IN /\ (pc[w] = "returned" /\ ordinary /\ pc'[w] # pc[w])
             => IF counts
                  THEN /\ pc'[w] = "bumped"
                       /\ HeldNext(w).retry_count = job[w].retry_count + 1
                       /\ HeldNext(w).last_retry = Iso(now)
                       /\ HeldNext(w).status = Held(w).status
                  ELSE /\ pc'[w] = "done"
                       /\ HeldNext(w).status = target
                       /\ HeldNext(w).retry_count = job[w].retry_count
                       /\ HeldNext(w).last_retry = Held(w).last_retry
          /\ (pc[w] = "bumped" /\ pc'[w] # pc[w])
             => /\ pc'[w] = "done"
                /\ HeldNext(w).status = target
                /\ HeldNext(w).status # RegistryStep(w).process
                /\ HeldNext(w).retry_count = job[w].retry_count + 1
                /\ HeldNext(w).last_retry # NULL]_vars

\* C9: a failed generation returned the job to 'pending' with one more retry
C9_Witness ==
  \E w \in workers :
     /\ pc[w] = "done" /\ ret[w].kind = "err"
     /\ job[w].status = "pending" /\ job[w].workflow = "txt2img"
     /\ Held(w).status = "pending"
     /\ Held(w).retry_count = job[w].retry_count + 1

\* C10: once the processor has returned, the worker's next step leaves the job with
\* the step's success state, retry_count 0, last_retry null and the returned payload
\* as its result.
C10_SuccessTransition ==
  [][\A w \in workers :
       (pc[w] = "returned" /\ ret[w].kind = "ok" /\ pc'[w] # pc[w])
         => /\ pc'[w] = "done"
            /\ HeldNext(w).status = RegistryStep(w).success
            /\ HeldNext(w).retry_count = 0
            /\ HeldNext(w).last_retry = NULL
            /\ HeldNext(w).result = serialize(ret[w].payload)]_vars

\* the minute a stamp denotes
MinuteAt(ts) == ts[2]

\* a job is due: it is ready and its ready time (created_at, or the last failure
\* plus 2^retry_count minutes) is not later than t
DueAt(row) ==
  IF row.retry_count = 0 THEN MinuteAt(row.created_at)
  ELSE MinuteAt(row.last_retry) + 2^row.retry_count
Due(row, t) == Ready(row.status) /\ DueAt(row) <= t

\* C11: getNextReady returns only a job that is ready and whose ready time has come
\* (a job that failed at t with retry_count r > 0 not before t + 2^r minutes), and it
\* signals 'No ready jobs' only when no such job exists.
C11_LeaseEligibility ==
  \A w \in workers :
     /\ pc[w] = "leased" => Due(Held(w), now)
     /\ (pc[w] = "sleep" /\ caught[w] = <<"No ready jobs">>)
          => \A u \in DOMAIN jobs : ~Due(jobs[u], now)

\* C12: the job getNextReady returns has the smallest created_at of the eligible jobs.
C12_FifoAmongEligible ==
  \A w \in workers :
     pc[w] = "leased"
       => \A v \in DOMAIN jobs :
            Eligible(jobs[v], now) => TextLE(Held(w).created_at, jobs[v].created_at)

\* C13: a job leased after its k-th failure had its ready time 2^(k-1) minutes after
\* that failure: the delays are 1, 2, 4, 8 minutes for k = 1, 2, 3, 4.
C13_BackoffSchedule ==
  \A w \in workers :
     (pc[w] = "leased" /\ job[w].retry_count >= 1)
       => MinuteAt(ReadyAt(Held(w))) = MinuteAt(Held(w).last_retry) + 2^(job[w].retry_count - 1)

\* the status text starts with 'ready-for-'
StartsWithReadyFor(status) ==
  /\ Len(Chars[status]) >= 10
  /\ SubSeq(Chars[status], 1, 10) = <<"r", "e", "a", "d", "y", "-", "f", "o", "r", "-">>

C15_ReadyAtValue ==
  \A u \in DOMAIN jobs :
     IF jobs[u].retry_count = 0
       THEN ReadyAt(jobs[u]) = jobs[u].created_at
       ELSE MinuteAt(ReadyAt(jobs[u])) = MinuteAt(jobs[u].last_retry) + 2^jobs[u].retry_count

\* C15: a job with retry_count 3 was leased, its ready_at 8 minutes after last_retry
C15_Witness ==
  \E w \in workers :
     /\ pc[w] = "leased" /\ job[w].retry_count = 3
     /\ MinuteAt(ReadyAt(Held(w))) = MinuteAt(Held(w).last_retry) + 8

\* C16: once a job is completed, error or canceled, no step changes its status,
\* progress, result, error, retry_count or last_retry.
C16_TerminalImmutable ==
  [][\A u \in DOMAIN jobs :
       jobs[u].status \in {"completed", "error", "canceled"}
         => /\ jobs'[u].status = jobs[u].status
            /\ jobs'[u].progress = jobs[u].progress
            /\ jobs'[u].result = jobs[u].result
            /\ jobs'[u].error = jobs[u].error
            /\ jobs'[u].retry_count = jobs[u].retry_count
            /\ jobs'[u].last_retry = jobs[u].last_retry]_vars

\* C17: cancel finds the job (and will answer true) only when its status is not
\* completed, error or canceled; its update sets 'canceled', and a job that is already
\* terminal is left as it is.
C17_CancelOnlyNonTerminal ==
  [][/\ (cancelling = 0 /\ cancelling' # 0)
          => jobs[cancelling'].status \notin {"completed", "error", "canceled"}
     /\ (cancelling # 0 /\ cancelling' = 0)
          => /\ jobs'[cancelling].status = "canceled"
             /\ jobs[cancelling].status \in {"completed", "error", "canceled"}
                  => jobs' = jobs]_vars

\* C18: when a job was canceled while its processor ran and the processor succeeds,
\* the worker's next step commits the success transition: status step.success and
\* the processor's result.
C18_CancelIsCooperative ==
  [][\A w \in workers :
       (pc[w] = "returned" /\ ret[w].kind = "ok" /\ Held(w).status = "canceled"
          /\ pc'[w] # pc[w])
         => /\ pc'[w] = "done"
            /\ HeldNext(w).status = RegistryStep(w).success
            /\ HeldNext(w).result = serialize(ret[w].payload)]_vars

\* the files a run has to apply: those without a success = 1 row when it started
ToApply == SelectSeq(mig.files, LAMBDA f : f \notin mig.applied)

\* C19: while every migration file has a success row, no step of a run changes the
\* ledger or the schema; and a run that ends has applied exactly the files without
\* a success row, in sorted order.
C19_MigrationIdempotence ==
  [][/\ (\A f \in DirEntries : EndsWithSql(f) => f \in AppliedMigrations)
          => (ledger' = ledger /\ schema' = schema)
     /\ (mig.pc \in {"loop", "catch"} /\ mig'.pc \in {"finished", "crashed"})
          => mig'.attempted = ToApply]_vars

\* C20: when a migration has thrown, the handler rolls its changes back, records it
\* with success 0 and the message, and the run goes on with the next file.
C20_FailureIsolation ==
  [][(mig.pc = "catch" /\ mig'.pc # "catch")
       => LET f == mig.files[mig.i]
          IN /\ schema' = mig.saved
             /\ ledger'[f] # NoRow
             /\ ledger'[f][2] = 0
             /\ ledger'[f][3] # NULL
             /\ mig'.pc = "loop"
             /\ mig'.i = mig.i + 1]_vars

\* C21: a leased job whose step names a process the factory has no case for ends
\* the iteration in terminal status 'error' (it is not left to be leased again).
C21_UnknownProcessEndsInError ==
  \A w \in workers :
     (pc[w] = "sleep" /\ caught[w] = <<"Unknown active state">>) => Held(w).status = "error"
\* C22: a job created with a webhookUrl that waits for its webhook ('ready-for-webhook')
\* has progress 0.9 and a stored result.
C22_HoldingState ==
  \A u \in DOMAIN jobs :
     (jobs[u].webhookUrl /\ jobs[u].status = "ready-for-webhook")
       => (jobs[u].progress = 9 /\ jobs[u].result # NULL)

\* a step in which the jobs API was called
Called(name) == op'.name = name /\ (op' # op \/ jobs' # jobs)

\* the fields of a row
Fields == DOMAIN NewRow("txt2img", "pending", FALSE, 0)

\* the step changes at most the given fields of row u, and no other row
OnlyFieldsChange(u, fields) ==
  /\ DOMAIN jobs' = DOMAIN jobs
  /\ \A v \in DOMAIN jobs : v # u => jobs'[v] = jobs[v]
  /\ \A f \in Fields \ fields : jobs'[u][f] = jobs[u][f]

\* C23: jobs.create of a job without a workflow inserts nothing; a job accepted with
\* no status given is stored 'pending' with progress 0, retry_count 0 and a
\* created_at, and is eligible for leasing at once.
C23_CreateDefaults ==
  [][Called("create") =>
       IF op'.arg[1] = Absent THEN jobs' = jobs
       ELSE /\ Len(jobs') = Len(jobs) + 1
            /\ \A v \in DOMAIN jobs : jobs'[v] = jobs[v]
            /\ jobs'[op'.uuid].workflow = op'.arg[1]
            /\ op'.arg[2] = Absent =>
                 /\ jobs'[op'.uuid].status = "pending"
                 /\ jobs'[op'.uuid].progress = 0
                 /\ jobs'[op'.uuid].retry_count = 0
                 /\ jobs'[op'.uuid].created_at # NULL
                 /\ Eligible(jobs'[op'.uuid], now)]_vars

C23_Witness ==
  /\ op.name = "create"
  /\ op.arg = <<"upscale", Absent>>
  /\ jobs[op.uuid].status = "pending"
  /\ Eligible(jobs[op.uuid], now)

\* C26: incrementFailureCounter(uuid) adds 1 to retry_count and sets last_retry to
\* now; no other field of the job and no other job changes.
C26_IncrementFailureCounterFrame ==
  [][Called("incrementFailureCounter") =>
       /\ jobs'[op'.uuid].retry_count = jobs[op'.uuid].retry_count + 1
       /\ jobs'[op'.uuid].last_retry = Iso(now)
       /\ OnlyFieldsChange(op'.uuid, {"retry_count", "last_retry"})]_vars

C26_Witness ==
  /\ op.name = "incrementFailureCounter"
  /\ Len(jobs) = MaxRows
  /\ jobs[op.uuid].retry_count = 2
  /\ jobs[op.uuid].status = "generating"
  /\ \E v \in DOMAIN jobs : v # op.uuid /\ jobs[v].retry_count = 1

C24_ErrorMessageKept ==
  [][\A u \in DOMAIN jobs' :
       jobs'[u].status = "error" =>
         /\ jobs'[u].error # NULL
         /\ IF u \in DOMAIN jobs /\ jobs[u].status = "error"
              THEN jobs'[u].error = jobs[u].error
              ELSE \E w \in workers :
                     /\ job[w].uuid = u
                     /\ CaughtError(w).kind = "err"
                     /\ jobs'[u].error = CaughtError(w).message]_vars

\* a processor is running for the job the worker holds
ProcessorRunning(w) == w \in workers /\ pc[w] \in {"run", "await"}

\* C25: a processor starts only in the step in which the worker has written the
\* step's process name as the job's status, and a processor returns or throws only
\* after it was started that way.
C25_MarkerBeforeProcessor ==
  [][\A w \in workers :
       /\ (~ProcessorRunning(w) /\ pc'[w] \in {"run", "await"}) =>
            /\ pc[w] = "leased"
            /\ HeldNext(w).status = StepOf(w).process
            /\ createProcessor(HeldNext(w).status)
       /\ (ret[w] = NoRet /\ ret'[w] # NoRet) => ProcessorRunning(w)]_vars

C25_Witness ==
  /\ pc["w1"] = "await"
  /\ job["w1"].status = "ready-for-uploading"
  /\ Held("w1").status = "uploading"

\* a processor run is under way for the job the worker holds
InProcessor(w) == w \in workers /\ pc[w] \in {"run", "await", "sending"}

\* C28: between the marker and the transition, a step that is not a cancel leaves
\* status, retry_count, last_retry and completed_at of the held job as they are.
C28_ProcessorWritesNoStatus ==
  [][\A w \in workers :
       (InProcessor(w) /\ pc'[w] \in {"run", "await", "sending", "returned"}
          /\ cancelling' = cancelling)
         => /\ HeldNext(w).status = Held(w).status
            /\ HeldNext(w).retry_count = Held(w).retry_count
            /\ HeldNext(w).last_retry = Held(w).last_retry
            /\ HeldNext(w).completed_at = Held(w).completed_at]_vars

\* C29: the poller writes progress only while the run that started it has neither
\* returned nor thrown.
C29_PollerTeardown ==
  [][\A w \in workers :
       (poller[w].state = "asking" /\ poller'[w].state # "asking"
          /\ op'.name = "updateProgress" /\ (op' # op \/ jobs' # jobs))
         => /\ pc[w] \in {"await", "teardown"}
            /\ job[w].uuid = poller[w].uuid]_vars

\* leaseNextQueuedJob returns to worker w in this step
LeaseReturns(w) == legacy.pc[w] # "returned" /\ legacy'.pc[w] = "returned"

\* C30: no legacy job is returned by leaseNextQueuedJob twice; a returned job is the
\* oldest queued one and is 'processing' in the store when the call returns; a call
\* that finds no queued job returns null and leaves the table as it was.
C30_LegacyLeaseAtomic ==
  [][\A w \in WorkerIds :
       /\ LeaseReturns(w) =>
            IF legacy'.leased[w] = NULL
              THEN /\ legacy'.rows = legacy.rows
                   /\ \A u \in DOMAIN legacy.rows : legacy.rows[u] # "queued"
              ELSE /\ legacy'.rows[legacy'.leased[w][1]] = "processing"
                   /\ legacy'.given[legacy'.leased[w][1]] = 1
                   /\ \A v \in DOMAIN legacy.rows :
                        v < legacy'.leased[w][1] => legacy.rows[v] # "queued"
                   /\ \A v \in WorkerIds :
                        (v # w /\ legacy.leased[v] # NULL)
                          => legacy.leased[v][1] # legacy'.leased[w][1]
       /\ (legacy.pc[w] = "begun" /\ legacy'.pc[w] = "selected") => legacy'.rows = legacy.rows]_vars

C30_Witness ==
  /\ legacy.pc["w1"] = "returned"
  /\ legacy.leased["w1"] = <<2, "processing">>
  /\ legacy.pc["w2"] = "returned"
  /\ legacy.leased["w2"] = <<1, "processing">>
  /\ legacy.rows = <<"processing", "processing", "queued">>

Unheld(u) == \A w \in WorkerIds : legacy.leased[w] = NULL \/ legacy.leased[w][1] # u

\* the completion webhooks posted for job u
CompletionPosts(sent) == {i \in DOMAIN sent : sent[i][1] = "webhook"}

C32_BoundedRetries ==
  [][/\ \A u \in DOMAIN jobs' : jobs'[u].retry_count <= RetryCeiling
     /\ \A w \in workers :
          (pc[w] = "returned" /\ pc'[w] # "returned" /\ CaughtError(w).kind = "err"
             /\ job[w].retry_count = RetryCeiling)
            => /\ pc'[w] = "done"
               /\ HeldNext(w).status = "error"
               /\ HeldNext(w).retry_count = RetryCeiling]_vars

C32_Witness ==
  \E u \in DOMAIN jobs :
     /\ jobs[u].status = "error"
     /\ jobs[u].retry_count = RetryCeiling
     /\ jobs[u].error = <<"Download failed">>

\* C35: in every reachable state a job's completed_at is non-null exactly when
\* its status is completed, error or canceled.
C35_CompletedAtConsistent ==
  \A u \in DOMAIN jobs :
     (jobs[u].completed_at # NULL) <=> (jobs[u].status \in {"completed", "error", "canceled"})

\* the statuses the registry can give a job: 'pending', the 'ready-for-*' states,
\* the process-name markers and the terminal statuses
GraphStatuses ==
  {"pending"} \cup {s \in Statuses : LikeReadyFor(s)} \cup ProcessNames \cup TerminalStatuses

\* C36: in every workflow of the registry each success target and each failure
\* target (the step's failure, or the waiting state itself when it has none) is a
\* terminal status or a state with an entry in the same workflow, every state with
\* an entry is 'pending' or 'ready-for-*', every process name is resolved by
\* createProcessor, and every stored status is 'pending', a 'ready-for-*' state, a
\* process-name marker or a terminal status.
C36_ClosedWorkflowGraph ==
  /\ \A k \in WorkflowKeys : \A s \in DOMAIN Workflows[k] :
        LET step == Workflows[k][s]
            failure == IF step.failure # Absent THEN step.failure ELSE s
        IN /\ step.success \in TerminalStatuses \cup DOMAIN Workflows[k]
           /\ failure \in TerminalStatuses \cup DOMAIN Workflows[k]
           /\ (s = "pending" \/ LikeReadyFor(s))
           /\ createProcessor(step.process)
  /\ \A u \in DOMAIN jobs : jobs[u].status \in GraphStatuses

C36_Witness ==
  \E u \in DOMAIN jobs :
     /\ jobs[u].workflow = "txt2img"
     /\ jobs[u].status = "completed"
     /\ jobs[u].result # NULL
     /\ jobs[u].retry_count = 0

\* no worker is between getNextReady's return of job u and the end of its turn
Idle(u) == \A w \in workers : job[w].uuid = u => pc[w] \in {"poll", "done", "sleep"}

\* C37: the cancel write on a job that is 'pending' or 'ready-for-*' and held by
\* no worker stores 'canceled', and a canceled job that no worker holds stays
\* 'canceled' and stays unheld in every later step: getNextReady never returns it
\* and no processor runs for it.
C37_IdleCancelFinal ==
  [][\A u \in DOMAIN jobs :
        /\ (cancelling = u /\ cancelling' = 0 /\ Idle(u) /\ Ready(jobs[u].status))
              => jobs'[u].status = "canceled"
        /\ (jobs[u].status = "canceled" /\ Idle(u))
              => (jobs'[u].status = "canceled" /\ Idle(u)')]_vars

C37_Witness ==
  \E u \in DOMAIN jobs : \E w \in workers :
     /\ jobs[u].status = "canceled"
     /\ jobs[u].result = NULL
     /\ jobs[u].retry_count = 0
     /\ Idle(u)
     /\ jobs[u].completed_at[2] < now
     /\ pc[w] = "sleep"
     /\ caught[w] = <<"No ready jobs">>

C34_NoHeadOfLineBlocking ==
  Eligible(jobs[2], now) ~> (job["w1"].uuid = 2 \/ ~Eligible(jobs[2], now))

\* C33: with a worker that keeps polling, processors that return or throw and a
\* clock that advances, every job that is 'pending' with a workflow of the
\* registry eventually has status completed, error or canceled.
C33_PendingReachesTerminal ==
  \A u \in 1..MaxRows :
     (u \in DOMAIN jobs /\ jobs[u].status = "pending" /\ jobs[u].workflow \in WorkflowKeys)
        ~> (u \in DOMAIN jobs /\ jobs[u].status \in TerminalStatuses)

====
